---- MODULE Spec2Model ----
(***************************************************************************)
(* Model of the glucose-tracker alignment / metric pipeline:               *)
(*   src/src/data/processor.py        DataProcessor                        *)
(*   src/src/visualization/visualizer.py  GlucoseDashboard                 *)
(*   src/src/main.py                  GlucoseTracker                       *)
(*   src/quickstart.py                QuickStartTracker                    *)
(*                                                                         *)
(* Time is counted in ticks; TicksPerMinute ticks make one minute and      *)
(* DayLen minutes make one day (pandas 'T' and 'D' frequencies, scaled).   *)
(* Floats are modelled as exact rationals [n, d]; d = 0 encodes the IEEE   *)
(* specials: 0/0 is NaN (pandas' null), 1/0 is +inf, -1/0 is -inf.         *)
(***************************************************************************)
EXTENDS Integers, Sequences, FiniteSets, TLC

\* ---------------------------------------------------------------- bounds
TicksPerMinute == 2   \* sub-minute resolution of source timestamps
DayLen == 2           \* minutes per day (scaled down from 1440)
MaxDays == 2          \* source timestamps lie in days 0 .. MaxDays-1
MaxReadings == 2      \* rows of a glucose table
MaxCalls == 5         \* calls made on one GlucoseTracker

TicksPerDay == DayLen * TicksPerMinute
MaxTick == MaxDays * TicksPerDay - 1
Ticks == 0 .. MaxTick

\* ---------------------------------------------------------------- floats
RECURSIVE GCD(_, _)
GCD(a, b) == IF b = 0 THEN a ELSE GCD(b, a % b)

Abs(x) == IF x < 0 THEN -x ELSE x

Sign(x) == IF x < 0 THEN -1 ELSE IF x = 0 THEN 0 ELSE 1

\* the float n/d, normalised; a zero denominator gives NaN or +-inf as
\* numpy's division does (it warns, it does not raise)
Rat(n, d) ==
    IF d = 0 THEN [n |-> Sign(n), d |-> 0]
    ELSE LET g == GCD(Abs(n), Abs(d))
             s == IF d < 0 THEN -1 ELSE 1
         IN  [n |-> (s * n) \div g, d |-> (s * d) \div g]

NaN == [n |-> 0, d |-> 0]

F(x) == Rat(x, 1)

isnull(v) == v = NaN

notna(v) == v # NaN

\* float arithmetic; any NaN operand gives NaN
FSub(a, b) ==
    IF isnull(a) \/ isnull(b) THEN NaN
    ELSE IF a.d = 0 /\ b.d = 0 THEN (IF a.n = b.n THEN NaN ELSE a)
    ELSE IF a.d = 0 THEN a
    ELSE IF b.d = 0 THEN [n |-> -b.n, d |-> 0]
    ELSE Rat(a.n * b.d - b.n * a.d, a.d * b.d)

FAdd(a, b) ==
    IF isnull(a) \/ isnull(b) THEN NaN
    ELSE IF a.d = 0 /\ b.d = 0 THEN (IF a.n = b.n THEN a ELSE NaN)
    ELSE IF a.d = 0 THEN a
    ELSE IF b.d = 0 THEN b
    ELSE Rat(a.n * b.d + b.n * a.d, a.d * b.d)

FMul(a, b) ==
    IF isnull(a) \/ isnull(b) THEN NaN
    ELSE IF a.d = 0 \/ b.d = 0
         THEN (IF a.n = 0 \/ b.n = 0 THEN NaN
               ELSE [n |-> Sign(a.n) * Sign(b.n), d |-> 0])
    ELSE Rat(a.n * b.n, a.d * b.d)

FDiv(a, b) ==
    IF isnull(a) \/ isnull(b) THEN NaN
    ELSE IF a.d = 0 /\ b.d = 0 THEN NaN
    ELSE IF a.d = 0 THEN [n |-> a.n * (IF b.n < 0 THEN -1 ELSE 1), d |-> 0]
    ELSE IF b.d = 0 THEN F(0)
    ELSE Rat(a.n * b.d, a.d * b.n)

\* a <= b on floats; every comparison with NaN is False
FLe(a, b) ==
    IF isnull(a) \/ isnull(b) THEN FALSE
    ELSE IF a.d = 0 /\ b.d = 0 THEN a.n <= b.n
    ELSE IF a.d = 0 THEN a.n < 0
    ELSE IF b.d = 0 THEN b.n > 0
    ELSE a.n * b.d <= b.n * a.d

\* ------------------------------------------------------------ exceptions
\* results of a call: exc = "none" and the returned table, or the exception
Ok(df) == [exc |-> "none", df |-> df]

Raise(e) == [exc |-> e, df |-> <<>>]

\* ------------------------------------------------------- DataProcessor
floor_D(t) == (t \div TicksPerDay) * TicksPerDay

ceil_D(t) == ((t + TicksPerDay - 1) \div TicksPerDay) * TicksPerDay

\* mutant: a range that leaves out its end point
date_range_left(start_date, end_date) ==
    [i \in 1 .. ((end_date - start_date + TicksPerMinute - 1)
                    \div TicksPerMinute)
        |-> start_date + (i - 1) * TicksPerMinute]

\* pd.date_range(start, end, freq='T'): start, start + 1 min, ... <= end
date_range(start_date, end_date) ==
    [i \in 1 .. ((end_date - start_date) \div TicksPerMinute) + 1
        |-> start_date + (i - 1) * TicksPerMinute]

create_timeline_dataframe(start_date, end_date) ==
    LET idx == date_range(start_date, end_date)
    IN  [i \in DOMAIN idx |->
            [t |-> idx[i], Sleep |-> 0, Strength |-> 0, Cardio |-> 0,
             Nutrition |-> 0]]

\* index.min() / index.max() of a non-empty table
IndexMin(rows) ==
    CHOOSE m \in {rows[i].t : i \in DOMAIN rows} :
        \A i \in DOMAIN rows : m <= rows[i].t

IndexMax(rows) ==
    CHOOSE m \in {rows[i].t : i \in DOMAIN rows} :
        \A i \in DOMAIN rows : m >= rows[i].t

\* mutant: matching on the minute a timestamp falls in, not on equality
RECURSIVE MatchesSameMinute(_, _)
MatchesSameMinute(right, t) ==
    IF right = <<>> THEN <<>>
    ELSE IF Head(right).t \div TicksPerMinute = t \div TicksPerMinute
         THEN <<Head(right)>> \o MatchesSameMinute(Tail(right), t)
         ELSE MatchesSameMinute(Tail(right), t)

\* the rows of a table, in order, whose index equals t
RECURSIVE Matches(_, _)
Matches(right, t) ==
    IF right = <<>> THEN <<>>
    ELSE IF Head(right).t = t
         THEN <<Head(right)>> \o Matches(Tail(right), t)
         ELSE Matches(Tail(right), t)

\* the value columns of a source row, without its index
Values(row) == [c \in DOMAIN row \ {"t"} |-> row[c]]

\* DataFrame.join(right, how='left'): a left row with no right row at its
\* index gets the nulls; a left row with k right rows at its index is
\* repeated k times, once per right row
RECURSIVE join_left(_, _, _)
join_left(left, right, nulls) ==
    IF left = <<>> THEN <<>>
    ELSE LET l == Head(left)
             m == Matches(right, l.t)
             out == IF m = <<>> THEN <<l @@ nulls>>
                    ELSE [k \in DOMAIN m |-> l @@ Values(m[k])]
         IN  out \o join_left(Tail(left), right, nulls)

GlucoseNulls == [Historic |-> NaN, Scan |-> NaN]

NoMeal == "NaN"

NutritionNulls ==
    [Meal |-> NoMeal, P_Macro |-> NaN, F_Macro |-> NaN, C_Macro |-> NaN]

\* mutant: assigning the mask itself, which clears the minutes outside
mark_period_assign(rows, start_time, end_time, activity_column) ==
    [i \in DOMAIN rows |->
        [rows[i] EXCEPT ![activity_column] =
            IF rows[i].t >= start_time /\ rows[i].t <= end_time
            THEN 1 ELSE 0]]

\* df.loc[mask, activity_column] = 1 with
\* mask = (df_times >= start_time) & (df_times <= end_time); both sides
\* are instants on the same clock (the index values and Timestamp.value)
mark_period(rows, start_time, end_time, activity_column) ==
    [i \in DOMAIN rows |->
        IF rows[i].t >= start_time /\ rows[i].t <= end_time
        THEN [rows[i] EXCEPT ![activity_column] = 1]
        ELSE rows[i]]

\* the loop over activity_periods.iterrows(); a period without the
\* 'start_time' or 'end_time' column raises KeyError
RECURSIVE mark_loop(_, _, _)
mark_loop(rows, periods, activity_column) ==
    IF periods = <<>> THEN Ok(rows)
    ELSE LET period == Head(periods)
         IN  IF "start_time" \notin DOMAIN period
                \/ "end_time" \notin DOMAIN period
             THEN Raise("KeyError")
             ELSE mark_loop(mark_period(rows, period["start_time"],
                                        period["end_time"], activity_column),
                            Tail(periods), activity_column)

mark_activities_vectorized(df, activity_periods, activity_column) ==
    IF activity_periods = <<>> THEN Ok(df)
    ELSE LET withcol ==
                 [i \in DOMAIN df |->
                     IF activity_column \in DOMAIN df[i] THEN df[i]
                     ELSE df[i] @@ (activity_column :> 0)]
         IN  mark_loop(withcol, activity_periods, activity_column)

\* positions of the non-null entries of a series before / after position i
ValidBefore(s, i) == {j \in 1 .. i - 1 : notna(s[j])}

ValidAfter(s, i) == {j \in i + 1 .. Len(s) : notna(s[j])}

SetMax(S) == CHOOSE m \in S : \A x \in S : x <= m

SetMin(S) == CHOOSE m \in S : \A x \in S : m <= x

\* Series.interpolate(method='linear') with pandas' defaults
\* (limit_direction='forward', limit_area=None): the index is ignored and
\* the rows are taken as equally spaced; nulls before the first reading
\* stay null; nulls after the last reading take the last reading
interpolate(s) ==
    [i \in DOMAIN s |->
        IF notna(s[i]) THEN s[i]
        ELSE IF ValidBefore(s, i) = {} THEN NaN
        ELSE LET lo == SetMax(ValidBefore(s, i))
             IN  IF ValidAfter(s, i) = {} THEN s[lo]
                 ELSE LET hi == SetMin(ValidAfter(s, i))
                      IN  FAdd(s[lo],
                               FDiv(FMul(FSub(s[hi], s[lo]), F(i - lo)),
                                    F(hi - lo)))]

\* mutant: the difference to the last non-null reading before the row
diff_prev_valid(s) ==
    [i \in DOMAIN s |->
        IF ValidBefore(s, i) = {} THEN NaN
        ELSE FSub(s[i], s[SetMax(ValidBefore(s, i))])]

\* Series.diff(): null in the first row
diff(s) == [i \in DOMAIN s |-> IF i = 1 THEN NaN ELSE FSub(s[i], s[i - 1])]

\* df.index.to_series().diff().dt.total_seconds() / 60
time_diff_minutes(df) ==
    [i \in DOMAIN df |->
        IF i = 1 THEN NaN ELSE Rat(df[i].t - df[i - 1].t, TicksPerMinute)]

Column(df, c) == [i \in DOMAIN df |-> df[i][c]]

calculate_metrics(df) ==
    IF df # <<>> /\ "Historic" \in DOMAIN df[1]
    THEN LET g == Column(df, "Historic")
             dg == diff(g)
             dt == time_diff_minutes(df)
             gi == interpolate(g)
         IN  Ok([i \in DOMAIN df |->
                    df[i] @@ [ROC |-> FDiv(dg[i], dt[i]),
                              Glucose_interpolated |-> gi[i]]])
    ELSE Ok(df)

\* timeline_df['Nutrition'] = timeline_df['Meal'].notna().astype(int)
SetNutrition(df) ==
    [i \in DOMAIN df |->
        [df[i] EXCEPT !.Nutrition = IF df[i].Meal # NoMeal THEN 1 ELSE 0]]

SelectStrength(workouts) ==
    IF "type" \in DOMAIN workouts[1]
    THEN SelectSeq(workouts, LAMBDA w : w["type"] = "strength")
    ELSE workouts

\* start_date = index.min().floor('D'); end_date = index.max().ceil('D');
\* the base timeline of a non-empty glucose table
base_timeline(glucose_df) ==
    create_timeline_dataframe(floor_D(IndexMin(glucose_df)),
                              ceil_D(IndexMax(glucose_df)))

\* the body of the try block of merge_all_data
merge_body(data_dict) ==
    IF "glucose" \notin data_dict.keys THEN Raise("KeyError")
    ELSE IF data_dict.glucose = <<>> THEN Raise("ValueError")
    ELSE
    LET glucose_df == data_dict.glucose
        base == base_timeline(glucose_df)
        with_glucose == join_left(base, glucose_df, GlucoseNulls)
        with_nutrition ==
            IF "nutrition" \in data_dict.keys /\ data_dict.nutrition # <<>>
            THEN SetNutrition(join_left(with_glucose, data_dict.nutrition,
                                        NutritionNulls))
            ELSE with_glucose
        with_sleep ==
            IF "sleep" \in data_dict.keys /\ data_dict.sleep # <<>>
            THEN mark_activities_vectorized(with_nutrition, data_dict.sleep,
                                            "Sleep")
            ELSE Ok(with_nutrition)
        with_workouts ==
            IF with_sleep.exc # "none" THEN with_sleep
            ELSE IF "workouts" \in data_dict.keys /\ data_dict.workouts # <<>>
            THEN mark_activities_vectorized(
                     with_sleep.df, SelectStrength(data_dict.workouts),
                     "Strength")
            ELSE with_sleep
    IN  IF with_workouts.exc # "none" THEN with_workouts
        ELSE calculate_metrics(with_workouts.df)

\* mutant: no except clause, the inner exception escapes
merge_all_data_unwrapped(data_dict) == merge_body(data_dict)

\* try: ... except Exception as e: raise ProcessingError(...)
merge_all_data(data_dict) ==
    LET r == merge_body(data_dict)
    IN  IF r.exc = "none" THEN r ELSE Raise("ProcessingError")

\* ------------------------------------------------------------- inputs
GlucoseValues == {<<NaN, F(6)>>, <<F(5), NaN>>, <<F(8), F(8)>>}

GlucoseRows ==
    {[t |-> t, Historic |-> v[1], Scan |-> v[2]] :
        t \in Ticks, v \in GlucoseValues}

\* glucose tables as the loader leaves them: sorted, one row per timestamp
GlucoseTables ==
    UNION {{s \in [1 .. n -> GlucoseRows] :
               \A i \in 1 .. n - 1 : s[i].t < s[i + 1].t} :
           n \in 0 .. MaxReadings}

MealRow(t, meal, p) ==
    [t |-> t, Meal |-> meal, P_Macro |-> F(p), F_Macro |-> F(p + 1),
     C_Macro |-> F(p + 2)]

\* meal logs: on a minute, off a minute, two meals at one timestamp
NutritionTables ==
    {<<>>,
     <<MealRow(TicksPerMinute, "Lunch", 20)>>,
     <<MealRow(TicksPerMinute + 1, "Lunch", 20)>>,
     <<MealRow(TicksPerMinute, "Lunch", 20),
       MealRow(TicksPerMinute, "Snack", 5)>>,
     <<MealRow(0, "Breakfast", 10), MealRow(TicksPerMinute, "Lunch", 20)>>}

\* interval tables: the columns the marker reads, and the documented
\* sleep schema ("Start", "End")
Period(s, e) == [start_time |-> s, end_time |-> e]

SleepDoc(s, e) == [Start |-> s, End |-> e]

SleepTables ==
    {<<>>,
     <<SleepDoc(TicksPerMinute, 2 * TicksPerMinute)>>,
     <<Period(TicksPerMinute, 2 * TicksPerMinute)>>,
     <<Period(1, TicksPerMinute), Period(TicksPerMinute, TicksPerDay + 1)>>}

Workout(s, e, ty) == [start_time |-> s, end_time |-> e, type |-> ty]

WorkoutTables ==
    {<<>>,
     <<Period(0, TicksPerMinute)>>,
     <<Workout(0, 1, "cardio"),
       Workout(TicksPerMinute, TicksPerDay, "strength")>>}

AllKeys == {"glucose", "sleep", "workouts", "nutrition"}

Dict(keys, g, sl, w, n) ==
    [keys |-> keys, glucose |-> g, sleep |-> sl, workouts |-> w,
     nutrition |-> n]

\* the dictionaries handed to merge_all_data
DataDicts ==
    {Dict(AllKeys, g, sl, w, n) :
        g \in GlucoseTables, sl \in SleepTables, w \in WorkoutTables,
        n \in NutritionTables}
    \cup {Dict({"glucose"}, g, <<>>, <<>>, <<>>) : g \in GlucoseTables}
    \cup {Dict({"sleep"}, <<>>, sl, <<>>, <<>>) : sl \in SleepTables}

\* the dictionaries load_all_data hands to the tracker: always four keys
TrackerDicts ==
    {Dict(AllKeys, g, sl, <<>>, n) :
        g \in {<<>>,
               <<[t |-> 1, Historic |-> F(5), Scan |-> NaN]>>,
               <<[t |-> 0, Historic |-> F(5), Scan |-> NaN],
                 [t |-> TicksPerMinute, Historic |-> F(8), Scan |-> F(8)]>>},
        sl \in {<<>>, <<SleepDoc(0, TicksPerMinute)>>},
        n \in {<<>>, <<MealRow(TicksPerMinute, "Lunch", 20)>>}}

\* --------------------------------------------------- statistics (inputs)
MaxSeries == 4        \* rows of a table handed to a statistic

StatValues == {NaN, F(3), F(4), F(11), F(5)}

\* tables of n rows on a one-minute index; the flags alternate
StatTablesOfLen(n) ==
    {[i \in 1 .. n |->
         [t |-> (i - 1) * TicksPerMinute, Historic |-> h[i],
          Sleep |-> i % 2, Strength |-> 0, Nutrition |-> i % 2]] :
        h \in [1 .. n -> StatValues]}

StatTables(maxlen) == UNION {StatTablesOfLen(n) : n \in 0 .. maxlen}

\* ----------------------------------------------------- marking (inputs)
MaxMarkCalls == 2     \* calls of mark_activities_vectorized on one table

MarkPeriods ==
    {Period(0, TicksPerMinute),
     Period(TicksPerMinute, 2 * TicksPerMinute + 1),
     Period(1, 1),
     Period(2 * TicksPerMinute, MaxTick + 1)}

MarkTables ==
    UNION {[1 .. n -> MarkPeriods] : n \in 0 .. 2}

MarkColumns == {"Sleep", "Walk"}

\* timelines whose indicator column is already partly set; "Walk" is a
\* column the timeline does not have yet
MarkFrames(col) ==
    LET base == create_timeline_dataframe(0, MaxDays * TicksPerDay)
    IN  IF col \in DOMAIN base[1]
        THEN {[i \in DOMAIN base |-> [base[i] EXCEPT ![col] = f[i]]] :
                 f \in [DOMAIN base -> {0, 1}]}
        ELSE {base}

\* ---------------------------------------------------------------- state
VARIABLES
    data_dict,        \* the argument of merge_all_data
    timeline_df,      \* the base timeline built by the last merge_all_data
    result,           \* what the last merge_all_data returned or raised
    pc,               \* "input" before the call, "merged" after it
    data,             \* GlucoseTracker.data: <<>> is None, <<d>> a dict
    processed_data,   \* GlucoseTracker.processed_data: <<>> is unset
    raised,           \* the exception of the tracker's last call, or "none"
    rendered,         \* the tables create_multi_day_dashboard was given
    last,             \* the tracker's last call
    calls,            \* the number of calls made on the tracker
    mk_col,           \* activity_column
    mk_df,            \* the table after the last marking call
    mk_prev,          \* the table before the last marking call
    mk_periods,       \* activity_periods of the last marking call
    mk_prev_periods,  \* activity_periods of the call before it
    mk_calls,         \* the number of marking calls
    table,            \* the table (series) handed to a statistic
    stat_op,          \* the statistic computed last
    stat,             \* its result
    raw,              \* the rows of the glucose CSV file, in file order
    loaded,           \* what load_glucose_data returned
    ld_pc             \* "file" before load_glucose_data, "loaded" after it

mergeVars == <<data_dict, timeline_df, result, pc>>

trackerVars == <<data, processed_data, raised, rendered, last, calls>>

markVars == <<mk_col, mk_df, mk_prev, mk_periods, mk_prev_periods, mk_calls>>

statVars == <<table, stat_op, stat>>

loadVars == <<raw, loaded, ld_pc>>

vars == <<mergeVars, trackerVars, markVars, statVars, loadVars>>

\* the parts of the state a specification does not use
IdleMerge ==
    /\ data_dict = Dict({}, <<>>, <<>>, <<>>, <<>>)
    /\ timeline_df = <<>>
    /\ result = Raise("none")
    /\ pc = "idle"

IdleTracker ==
    /\ data = <<>>
    /\ processed_data = <<>>
    /\ raised = "none"
    /\ rendered = <<>>
    /\ last = "idle"
    /\ calls = 0

IdleMark ==
    /\ mk_col = "Sleep"
    /\ mk_df = <<>>
    /\ mk_prev = <<>>
    /\ mk_periods = <<>>
    /\ mk_prev_periods = <<>>
    /\ mk_calls = 0

IdleStat ==
    /\ table = <<>>
    /\ stat_op = "idle"
    /\ stat = [exc |-> "none", val |-> NaN]

IdleLoad ==
    /\ raw = <<>>
    /\ loaded = <<>>
    /\ ld_pc = "idle"

\* ------------------------------------------------ merge_all_data alone
InitMerge ==
    /\ data_dict \in DataDicts
    /\ timeline_df = <<>>
    /\ result = Raise("none")
    /\ pc = "input"
    /\ IdleTracker /\ IdleMark /\ IdleStat /\ IdleLoad

\* one call of DataProcessor.merge_all_data(data_dict)
MergeAllData ==
    /\ pc = "input"
    /\ result' = merge_all_data(data_dict)
    /\ timeline_df' =
           IF "glucose" \in data_dict.keys /\ data_dict.glucose # <<>>
           THEN base_timeline(data_dict.glucose) ELSE <<>>
    /\ pc' = "merged"
    /\ UNCHANGED <<data_dict, trackerVars, markVars, statVars, loadVars>>

NextMerge == MergeAllData

SpecMerge == InitMerge /\ [][NextMerge]_vars

\* ------------------------------------------------------ GlucoseTracker
\* bool(df) of a pandas DataFrame: "The truth value of a DataFrame is
\* ambiguous", for every DataFrame
bool_DataFrame(df) == [exc |-> "ValueError", val |-> FALSE]

\* GlucoseTracker.__init__ sets data = None and no processed_data
Init ==
    /\ data = <<>>
    /\ processed_data = <<>>
    /\ raised = "none"
    /\ rendered = <<>>
    /\ last = "init"
    /\ calls = 0
    /\ IdleMerge /\ IdleMark /\ IdleStat /\ IdleLoad

\* load_data: load_all_data returns a dictionary ...
load_data ==
    /\ calls < MaxCalls
    /\ \E d \in TrackerDicts : data' = <<d>>
    /\ raised' = "none"
    /\ last' = "load_data"
    /\ calls' = calls + 1
    /\ UNCHANGED <<processed_data, rendered, mergeVars, markVars, statVars,
                   loadVars>>

\* ... or a loader raises DataLoadError, which load_data re-raises
load_data_fails ==
    /\ calls < MaxCalls
    /\ raised' = "DataLoadError"
    /\ last' = "load_data"
    /\ calls' = calls + 1
    /\ UNCHANGED <<data, processed_data, rendered, mergeVars, markVars,
                   statVars, loadVars>>

process_data ==
    /\ calls < MaxCalls
    /\ IF data = <<>>
       THEN raised' = "ProcessingError" /\ UNCHANGED processed_data
       ELSE LET r == merge_all_data(data[1])
            IN  IF r.exc = "none"
                THEN raised' = "none" /\ processed_data' = <<r.df>>
                ELSE raised' = r.exc /\ UNCHANGED processed_data
    /\ last' = "process_data"
    /\ calls' = calls + 1
    /\ UNCHANGED <<data, rendered, mergeVars, markVars, statVars, loadVars>>

\* reading the attribute processed_data before process_data has assigned it
\* raises AttributeError; `not self.processed_data` on a DataFrame raises
generate_dashboard ==
    /\ calls < MaxCalls
    /\ IF processed_data = <<>>
       THEN raised' = "AttributeError" /\ UNCHANGED rendered
       ELSE LET b == bool_DataFrame(processed_data[1])
            IN  IF b.exc # "none"
                THEN raised' = b.exc /\ UNCHANGED rendered
                ELSE IF ~b.val
                THEN raised' = "ProcessingError" /\ UNCHANGED rendered
                ELSE /\ raised' = "none"
                     /\ rendered' = Append(rendered, processed_data[1])
    /\ last' = "generate_dashboard"
    /\ calls' = calls + 1
    /\ UNCHANGED <<data, processed_data, mergeVars, markVars, statVars, loadVars>>

Next ==
    \/ load_data
    \/ load_data_fails
    \/ process_data
    \/ generate_dashboard

Spec == Init /\ [][Next]_vars

\* ---------------------------------------------------------- statistics
OkVal(v) == [exc |-> "none", val |-> v]

RaiseVal(e) == [exc |-> e, val |-> NaN]

\* mutant: division of Python ints, which raises on a zero divisor
py_true_divide(n, d) ==
    IF d = 0 THEN RaiseVal("ZeroDivisionError") ELSE OkVal(Rat(n, d))

\* numpy.int64 / int: a zero divisor gives nan or inf with a RuntimeWarning,
\* it does not raise
np_true_divide(n, d) == OkVal(Rat(n, d))

\* r * 100 where r is the result of a division
Times100(r) == IF r.exc = "none" THEN OkVal(FMul(r.val, F(100))) ELSE r

\* Config.GLUCOSE_TARGET_RANGE = (3.9, 10.0)
TARGET_MIN == Rat(39, 10)

TARGET_MAX == Rat(10, 1)

InTargetRange(v) == FLe(TARGET_MIN, v) /\ FLe(v, TARGET_MAX)

\* Series.sum() of a boolean series
CountTrue(mask) == Cardinality({i \in DOMAIN mask : mask[i]})

\* (target_min <= data) & (data <= target_max), elementwise
in_range_mask(series) == [i \in DOMAIN series |-> InTargetRange(series[i])]

\* df[column].isnull()
isnull_mask(series) == [i \in DOMAIN series |-> isnull(series[i])]

\* Series.sum() of a 0/1 column
ColumnSum(df, c) == Cardinality({i \in DOMAIN df : df[i][c] = 1})

\* GlucoseDashboard._calculate_time_in_range
calculate_time_in_range(series) ==
    LET in_range == CountTrue(in_range_mask(series))
    IN  IF Len(series) > 0
        THEN Times100(np_true_divide(in_range, Len(series)))
        ELSE OkVal(F(0))

dropna(s) == SelectSeq(s, notna)

\* QuickStartTracker.create_quick_dashboard, "Calculate Time in Range"
quick_time_in_range(df) ==
    LET glucose_data == dropna(Column(df, "Historic"))
        in_range == CountTrue(in_range_mask(glucose_data))
    IN  Times100(np_true_divide(in_range, Len(glucose_data)))

NaT == -1

\* DataProcessor.validate_processed_data
validate_processed_data(df) ==
    LET missing == Times100(np_true_divide(
                       CountTrue(isnull_mask(Column(df, "Historic"))),
                       Len(df)))
        sleep == Times100(np_true_divide(ColumnSum(df, "Sleep"), Len(df)))
        strength == Times100(np_true_divide(ColumnSum(df, "Strength"),
                                            Len(df)))
    IN  IF missing.exc # "none" THEN RaiseVal(missing.exc)
        ELSE IF sleep.exc # "none" THEN RaiseVal(sleep.exc)
        ELSE IF strength.exc # "none" THEN RaiseVal(strength.exc)
        ELSE OkVal([total_records |-> Len(df),
                    date_range |-> IF df = <<>> THEN <<NaT, NaT>>
                                   ELSE <<IndexMin(df), IndexMax(df)>>,
                    missing_glucose_pct |-> missing.val,
                    sleep |-> sleep.val,
                    strength |-> strength.val,
                    nutrition_events |-> ColumnSum(df, "Nutrition")])

InitStats ==
    /\ table \in StatTables(MaxSeries)
    /\ stat_op = "input"
    /\ stat = OkVal(NaN)
    /\ IdleMerge /\ IdleTracker /\ IdleMark /\ IdleLoad

\* dashboard._calculate_time_in_range(series) on a raw glucose column
CalculateTimeInRange ==
    /\ stat' = calculate_time_in_range(Column(table, "Historic"))
    /\ stat_op' = "time_in_range"
    /\ UNCHANGED <<table, mergeVars, trackerVars, markVars, loadVars>>

QuickTimeInRange ==
    /\ stat' = quick_time_in_range(table)
    /\ stat_op' = "quick_time_in_range"
    /\ UNCHANGED <<table, mergeVars, trackerVars, markVars, loadVars>>

ValidateProcessedData ==
    /\ stat' = validate_processed_data(table)
    /\ stat_op' = "validate_processed_data"
    /\ UNCHANGED <<table, mergeVars, trackerVars, markVars, loadVars>>

NextStats ==
    \/ CalculateTimeInRange
    \/ QuickTimeInRange
    \/ ValidateProcessedData

SpecStats == InitStats /\ [][NextStats]_vars

\* ------------------------------------- mark_activities_vectorized alone
InitMark ==
    /\ mk_col \in MarkColumns
    /\ mk_df \in MarkFrames(mk_col)
    /\ mk_prev = mk_df
    /\ mk_periods = <<>>
    /\ mk_prev_periods = <<>>
    /\ mk_calls = 0
    /\ IdleMerge /\ IdleTracker /\ IdleStat /\ IdleLoad

\* df = mark_activities_vectorized(df, activity_periods, activity_column)
Mark ==
    /\ mk_calls < MaxMarkCalls
    /\ \E p \in MarkTables :
           /\ mk_df' = mark_activities_vectorized(mk_df, p, mk_col).df
           /\ mk_periods' = p
    /\ mk_prev' = mk_df
    /\ mk_prev_periods' = mk_periods
    /\ mk_calls' = mk_calls + 1
    /\ UNCHANGED <<mk_col, mergeVars, trackerVars, statVars, loadVars>>

NextMark == Mark

SpecMark == InitMark /\ [][NextMark]_vars

\* ------------------------------------------------------------ DataLoader
MaxRawRows == 3       \* rows of a glucose CSV file

RawValues == {NaN, F(0), F(4), F(6)}

\* rows of the file; two timestamps, so that readings share one
RawRows ==
    {[t |-> t, Historic |-> h, Scan |-> sc] :
        t \in {0, 1}, h \in RawValues, sc \in {NaN, F(0)}}

RawFiles(maxlen) == UNION {[1 .. n -> RawRows] : n \in 0 .. maxlen}

RECURSIVE FSum(_)
FSum(s) == IF s = <<>> THEN F(0) ELSE FAdd(Head(s), FSum(Tail(s)))

\* the mean of a group, nulls skipped; null for a group of nulls
mean(s) ==
    LET valid == SelectSeq(s, notna)
    IN  IF valid = <<>> THEN NaN ELSE FDiv(FSum(valid), F(Len(valid)))

\* the values of column c in the rows with index t
Group(rows, t, c) == Column(Matches(rows, t), c)

\* set_index('Device Timestamp').sort_index(): the distinct index values in
\* ascending order
RECURSIVE SortedSet(_)
SortedSet(S) ==
    IF S = {} THEN <<>> ELSE <<SetMin(S)>> \o SortedSet(S \ {SetMin(S)})

\* df.groupby(level=0).mean(): one row per timestamp, each column the mean
\* of its group
groupby_mean(rows) ==
    LET idx == SortedSet({rows[i].t : i \in DOMAIN rows})
    IN  [k \in DOMAIN idx |->
            [t |-> idx[k],
             Historic |-> mean(Group(rows, idx[k], "Historic")),
             Scan |-> mean(Group(rows, idx[k], "Scan"))]]

\* df.replace(0, np.nan)
replace_zero(df) ==
    [k \in DOMAIN df |->
        [df[k] EXCEPT !.Historic = IF @ = F(0) THEN NaN ELSE @,
                      !.Scan = IF @ = F(0) THEN NaN ELSE @]]

\* DataLoader.load_glucose_data: the mean is taken first, zeros are
\* replaced afterwards
load_glucose_data(rows) == replace_zero(groupby_mean(rows))

InitLoad ==
    /\ raw \in RawFiles(MaxRawRows)
    /\ loaded = <<>>
    /\ ld_pc = "file"
    /\ IdleMerge /\ IdleTracker /\ IdleMark /\ IdleStat

LoadGlucoseData ==
    /\ ld_pc = "file"
    /\ loaded' = load_glucose_data(raw)
    /\ ld_pc' = "loaded"
    /\ UNCHANGED <<raw, mergeVars, trackerVars, markVars, statVars>>

NextLoad == LoadGlucoseData

SpecLoad == InitLoad /\ [][NextLoad]_vars

\* ============================================================== claims
Merged == pc = "merged" /\ result.exc = "none"

HasGlucose == "glucose" \in data_dict.keys /\ data_dict.glucose # <<>>

\* whole days that bracket the glucose timestamps, counted in minutes
DayMultiples == {k * TicksPerDay : k \in 0 .. MaxDays + 1}

SpanMinutes(g) ==
    LET lo == SetMax({d \in DayMultiples : \A i \in DOMAIN g : d <= g[i].t})
        hi == SetMin({d \in DayMultiples : \A i \in DOMAIN g : d >= g[i].t})
    IN  (hi - lo) \div TicksPerMinute

OneMinuteSteps(tl) ==
    \A i \in 1 .. Len(tl) - 1 : tl[i + 1].t - tl[i].t = TicksPerMinute

\* C1 (as stated): the timeline of a non-empty glucose table has as many
\* rows as there are minutes between the day floor of the first and the day
\* ceiling of the last glucose timestamp, in steps of one minute.
C1_RowsEqualMinutes ==
    (pc = "merged" /\ HasGlucose) =>
        /\ Len(timeline_df) = SpanMinutes(data_dict.glucose)
        /\ OneMinuteSteps(timeline_df)

\* C1 (amended): the timeline holds both end points, so it has one row more
\* than there are minutes between day floor and day ceiling; consecutive
\* entries differ by exactly one minute.
C1_RowsEqualMinutesPlusOne ==
    (pc = "merged" /\ HasGlucose) =>
        /\ Len(timeline_df) = SpanMinutes(data_dict.glucose) + 1
        /\ OneMinuteSteps(timeline_df)

C1_Witness ==
    /\ pc = "merged" /\ HasGlucose
    /\ Len(timeline_df) = 2 * DayLen + 1
    /\ data_dict.glucose[1].t % TicksPerDay # 0

\* C2: a non-empty sleep table with the documented columns "Start" and "End"
\* merges successfully, and a minute has Sleep = 1 exactly when it lies in
\* [Start, End] of some session.
DocumentedSleep ==
    /\ "sleep" \in data_dict.keys /\ data_dict.sleep # <<>>
    /\ \A i \in DOMAIN data_dict.sleep :
           DOMAIN data_dict.sleep[i] = {"Start", "End"}

C2_DocumentedSleepMarked ==
    (pc = "merged" /\ HasGlucose /\ DocumentedSleep) =>
        /\ result.exc = "none"
        /\ \A i \in DOMAIN result.df :
               result.df[i].Sleep =
                   IF \E k \in DOMAIN data_dict.sleep :
                          /\ data_dict.sleep[k].Start <= result.df[i].t
                          /\ result.df[i].t <= data_dict.sleep[k].End
                   THEN 1 ELSE 0

\* readings strictly before / after a timestamp, by time
ReadingBefore(df, t) == {j \in DOMAIN df : df[j].t < t /\ notna(df[j].Historic)}

ReadingAfter(df, t) == {j \in DOMAIN df : df[j].t > t /\ notna(df[j].Historic)}

C6_FailuresAreProcessingError ==
    pc = "merged" =>
        /\ ("glucose" \in data_dict.keys /\ data_dict.glucose = <<>>)
               => result.exc = "ProcessingError"
        /\ result.exc \in {"none", "ProcessingError"}
        /\ result.exc # "none" => result.df = <<>>
        /\ result.exc = "none" => result.df # <<>>

C6_Witness ==
    /\ pc = "merged"
    /\ "glucose" \in data_dict.keys /\ data_dict.glucose = <<>>
    /\ result.exc = "ProcessingError"

C6_WitnessInnerFailure ==
    /\ pc = "merged" /\ HasGlucose
    /\ result.exc = "ProcessingError"

\* the source rows at exactly timestamp t
RowsAt(tbl, t) == {k \in DOMAIN tbl : tbl[k].t = t}

\* C7: a merged row carries glucose (meal, macro) values only from a source
\* row at exactly its minute; with no such source row the joined columns
\* are null.
C7_ExactMatchJoin ==
    Merged =>
        \A i \in DOMAIN result.df :
            LET r == result.df[i]
                gs == RowsAt(data_dict.glucose, r.t)
                ns == RowsAt(data_dict.nutrition, r.t)
            IN  /\ IF gs = {}
                   THEN isnull(r.Historic) /\ isnull(r.Scan)
                   ELSE \E k \in gs :
                            /\ r.Historic = data_dict.glucose[k].Historic
                            /\ r.Scan = data_dict.glucose[k].Scan
                /\ "Meal" \in DOMAIN r =>
                       IF ns = {}
                       THEN /\ r.Meal = NoMeal
                            /\ isnull(r.P_Macro) /\ isnull(r.F_Macro)
                            /\ isnull(r.C_Macro)
                       ELSE \E k \in ns :
                                /\ r.Meal = data_dict.nutrition[k].Meal
                                /\ r.P_Macro = data_dict.nutrition[k].P_Macro
                                /\ r.F_Macro = data_dict.nutrition[k].F_Macro
                                /\ r.C_Macro = data_dict.nutrition[k].C_Macro

\* a reading and a meal off the minute grid are dropped, ones on it carried
C7_Witness ==
    /\ Merged
    /\ \E k \in DOMAIN data_dict.glucose :
           /\ data_dict.glucose[k].t % TicksPerMinute # 0
           /\ notna(data_dict.glucose[k].Historic)
    /\ \E i \in DOMAIN result.df : notna(result.df[i].Historic)
    /\ \E k \in DOMAIN data_dict.nutrition :
           data_dict.nutrition[k].t % TicksPerMinute # 0
    /\ \A i \in DOMAIN result.df :
           "Meal" \in DOMAIN result.df[i] /\ result.df[i].Meal = NoMeal

\* linear interpolation in time between the nearest readings around row i
LinearInTime(df, i) ==
    LET lo == CHOOSE j \in ReadingBefore(df, df[i].t) :
                  \A k \in ReadingBefore(df, df[i].t) : df[k].t <= df[j].t
        hi == CHOOSE j \in ReadingAfter(df, df[i].t) :
                  \A k \in ReadingAfter(df, df[i].t) : df[k].t >= df[j].t
    IN  FAdd(df[lo].Historic,
             FDiv(FMul(FSub(df[hi].Historic, df[lo].Historic),
                       F(df[i].t - df[lo].t)),
                  F(df[hi].t - df[lo].t)))

\* C9: Glucose_interpolated equals the glucose value wherever glucose is not
\* null, and at a null minute between two readings it is the linear
\* interpolation between the nearest reading before and after it.
C9_LinearInterpolation ==
    Merged =>
        \A i \in DOMAIN result.df :
            LET r == result.df[i]
            IN  /\ notna(r.Historic) => r.Glucose_interpolated = r.Historic
                /\ (/\ isnull(r.Historic)
                    /\ ReadingBefore(result.df, r.t) # {}
                    /\ ReadingAfter(result.df, r.t) # {})
                   => r.Glucose_interpolated = LinearInTime(result.df, i)

\* C4: time-in-range of a series with a non-null value is the count of
\* values in [3.9, 10.0] over the count of non-null values, times 100.
NonNull(s) == {i \in DOMAIN s : s[i].d # 0 \/ s[i].n # 0}

InBand(s) ==
    {i \in NonNull(s) : s[i].d # 0 /\ 39 * s[i].d <= 10 * s[i].n
                                   /\ s[i].n <= 10 * s[i].d}

C4_TimeInRangeOverNonNull ==
    (/\ stat_op \in {"time_in_range", "quick_time_in_range"}
     /\ NonNull(Column(table, "Historic")) # {})
    => /\ stat.exc = "none"
       /\ stat.val.d # 0
       /\ stat.val.n * Cardinality(NonNull(Column(table, "Historic")))
              = 100 * Cardinality(InBand(Column(table, "Historic")))
                    * stat.val.d

\* C5: the renderer runs only after a successful process_data; process_data
\* without loaded data and generate_dashboard without processed data raise
\* ProcessingError and render nothing.
C5_GuardsRaiseProcessingError ==
    /\ rendered # <<>> => processed_data # <<>>
    /\ (last = "process_data" /\ data = <<>>) => raised = "ProcessingError"
    /\ (last = "generate_dashboard" /\ processed_data = <<>>)
           => raised = "ProcessingError" /\ rendered = <<>>

\* the indicator of a row; a table without the column has no minute set
Indicator(r, col) == IF col \in DOMAIN r THEN r[col] ELSE 0

Sentinel(v) == v = F(0) \/ v = NaN

C10_WitnessGuarded ==
    /\ table = <<>>
    /\ stat_op = "time_in_range"
    /\ stat = OkVal(F(0))

\* the non-zero, non-null readings of column c at timestamp t, in file order
NonZeroAt(rows, t, c) ==
    SelectSeq(Group(rows, t, c), LAMBDA v : v # NaN /\ v # F(0))

\* C11: the value stored for a timestamp is the mean of the non-zero
\* readings at that timestamp, and null when there is none; there is one
\* row per timestamp.
C11_ZeroReadingsIgnored ==
    ld_pc = "loaded" =>
        /\ \A i \in DOMAIN raw :
               Cardinality(RowsAt(loaded, raw[i].t)) = 1
        /\ \A k \in DOMAIN loaded :
               /\ RowsAt(raw, loaded[k].t) # {}
               /\ loaded[k].Historic
                      = mean(NonZeroAt(raw, loaded[k].t, "Historic"))
               /\ loaded[k].Scan = mean(NonZeroAt(raw, loaded[k].t, "Scan"))

\* C12: the merged table has exactly one row per timeline minute, in the
\* timeline's order: strictly increasing, one minute apart, no row added,
\* removed or repeated by the joins.
C12_OneRowPerMinute ==
    Merged =>
        /\ Len(result.df) = Len(timeline_df)
        /\ \A i \in DOMAIN result.df :
               i \in DOMAIN timeline_df /\ result.df[i].t = timeline_df[i].t
        /\ OneMinuteSteps(result.df)

\* C13: Rate of Change is null in the first row and wherever the glucose of
\* the row or of the row before it is null; where both are readings it is
\* their difference divided by the minutes between the two rows (a repeated
\* minute has zero minutes elapsed and the quotient 0/0 is null).
C13_RateOfChangeConsecutiveRows ==
    Merged =>
        \A i \in DOMAIN result.df :
            LET r == result.df[i].ROC
                g == result.df[i].Historic
            IN  IF i = 1 THEN r = NaN
                ELSE LET p == result.df[i - 1].Historic
                         ticks == result.df[i].t - result.df[i - 1].t
                     IN  IF g = NaN \/ p = NaN THEN r = NaN
                         ELSE IF ticks = 0
                         THEN g = p /\ r = NaN
                         ELSE /\ r.d # 0
                              /\ r.n * g.d * p.d * ticks
                                     = r.d * TicksPerMinute
                                           * (g.n * p.d - p.n * g.d)

\* a rise between two consecutive minutes
C13_Witness ==
    /\ Merged
    /\ \E i \in DOMAIN result.df :
           /\ result.df[i].ROC # NaN
           /\ result.df[i].ROC # F(0)

\* a reading after a null minute: its rate is null although an earlier
\* reading exists
C13_WitnessAfterGap ==
    /\ Merged
    /\ \E i \in DOMAIN result.df :
           /\ i > 2
           /\ result.df[i].Historic # NaN
           /\ result.df[i - 1].Historic = NaN
           /\ \E j \in 1 .. i - 2 : result.df[j].Historic # NaN
           /\ result.df[i].ROC = NaN

\* C14: after load_data and a successful process_data, generate_dashboard
\* passes its guard and hands the merged table to the renderer.
C14_DashboardRendered ==
    (last = "generate_dashboard" /\ processed_data # <<>>) =>
        /\ raised = "none"
        /\ rendered # <<>>
        /\ rendered[Len(rendered)] = processed_data[1]

====
